---- MODULE Spec2Model ----
(***************************************************************************)
(* Model of utils/ymir_yolov5.py: the weight resolver get_weight_file, the *)
(* dataset converter convert_ymir_to_yolov5 and the detector adapter       *)
(* YmirYolov5 (construction, predict, infer).                              *)
(*                                                                         *)
(* Strings the code inspects character by character (weight file names)    *)
(* are sequences of one-character strings; the empty string is << >>.      *)
(* Paths the code only builds and compares are pairs <<directory, file>>.  *)
(* Box coordinates are fixed-point numbers counted in half pixels.         *)
(***************************************************************************)
EXTENDS Integers, Sequences, FiniteSets, TLC

VARIABLES
    cfg,           \* the harness configuration (read-only after Init)
    src,           \* cfg.ymir.input.*_index_file on disk: content or NoFile
    fs,            \* directory -> [tsv: file name -> content or NoFile, yaml: documents]
    conv_ret,      \* outcome of the last convert_ymir_to_yolov5 call
    conv_runs,     \* number of completed converter runs
    conv_in,       \* history: src as the last converter run saw it
    conv_prev,     \* history: [in, fs, ret] of the converter run before the last
    weight_files,  \* result of get_weight_files(cfg, suffix=('.pt'))
    ctime,         \* osp.getctime of every weight file
    weights_ret,   \* outcome of the last get_weight_file call
    adapter,       \* the YmirYolov5 instance under construction / constructed
    attempts,      \* number of YmirYolov5(...) calls so far
    trace,         \* calls made by the last YmirYolov5.__init__, in order
    pred,          \* output of self.forward(img1, nms=True) after scale_boxes
    result,        \* outcome of the last predict call
    anns           \* outcome of the last infer call

vars == <<cfg, src, fs, conv_ret, conv_runs, conv_in, conv_prev,
          weight_files, ctime, weights_ret, adapter, attempts, trace, pred, result, anns>>

NoFile == 0     \* content of a path that does not exist (osp.exists is False)

----------------------------------------------------------------------------
(* Bounds of the model *)

MaxCands   == 3    \* longest candidate list of weight files
MaxTime    == 2    \* creation timestamps are 1..MaxTime
MaxClasses == 2    \* longest class name list
MaxRuns    == 2    \* converter runs / constructor calls per behaviour
MaxDet     == 2    \* detections surviving NMS for the image
MaxHalf    == 2    \* box coordinates are 0..MaxHalf half pixels

Range(s) == {s[i] : i \in 1..Len(s)}

SeqsUpTo(S, n) == UNION {[1..k -> S] : k \in 0..n}

----------------------------------------------------------------------------
(* Weight resolver: get_weight_file *)

PT       == <<".", "p", "t">>
BEST_PT  == <<"b", "e", "s", "t", ".", "p", "t">>

\* candidate file names, all with the suffix .pt
WeightNames ==
    { <<"a">> \o PT,
      BEST_PT,
      <<"c">> \o PT,
      <<"m", "y">> \o BEST_PT,
      <<"b", "e", "s", "t", "2">> \o PT }

\* str.endswith
EndsWith(p, suffix) ==
    /\ Len(p) >= Len(suffix)
    /\ SubSeq(p, Len(p) - Len(suffix) + 1, Len(p)) = suffix

\* max(weight_files, key=osp.getctime): the first element of maximal key
MaxByCtime(wf, ct) ==
    LET i == CHOOSE i \in 1..Len(wf) :
                 /\ \A j \in 1..Len(wf) : ct[wf[j]] <= ct[wf[i]]
                 /\ \A j \in 1..(i - 1) : ct[wf[j]] < ct[wf[i]]
    IN  wf[i]

\* mutant: the best.pt priority loop is missing
get_weight_file_newest(wf, ct) ==
    IF Len(wf) > 0 THEN MaxByCtime(wf, ct) ELSE << >>

get_weight_file(wf, ct) ==
    LET best == {i \in 1..Len(wf) : EndsWith(wf[i], BEST_PT)}
    IN  IF best # {}
        THEN wf[CHOOSE i \in best : \A j \in best : i <= j]
        ELSE IF Len(wf) > 0
             THEN MaxByCtime(wf, ct)
             ELSE << >>

----------------------------------------------------------------------------
(* Dataset converter: convert_ymir_to_yolov5 *)

Dirs     == {"/out", "/cache"}
Splits   == <<"train", "val", "test">>
Prefixes == <<"training", "val", "candidate">>
TsvName  == [train |-> "train.tsv", val |-> "val.tsv", test |-> "test.tsv"]

\* osp.join(a, b)
Join(a, b) == <<a, b>>

\* mutant: the output root is preferred to the cache_dir override
CacheDirRootFirst(c) ==
    IF c.root_dir # "" THEN c.root_dir ELSE c.cache_dir

\* cfg.param.get('cache_dir', '') or cfg.ymir.output.root_dir
CacheDir(c) ==
    IF c.cache_dir # "" THEN c.cache_dir ELSE c.root_dir

\* mutant: enumerate(class_names, 1)
EnumerateFromOne(names) ==
    [idx \in 1..Len(names) |-> names[idx]]

\* {idx: name for idx, name in enumerate(class_names)}
Enumerate(names) ==
    [idx \in 0..(Len(names) - 1) |-> names[idx + 1]]

\* mutant: the copy is not guarded by osp.exists
ExistsAlways(content) == TRUE

\* osp.exists(src_file)
Exists(content) == content # NoFile

\* mutant: data[split] is assigned inside the `if osp.exists(src_file)`
RecordSplitIfCopied(data, split, copied) ==
    IF copied THEN [s \in DOMAIN data \cup {split} |->
                        IF s = split THEN TsvName[split] ELSE data[s]]
    ELSE data

\* data[split] = f'{split}.tsv', whether or not the file was copied
RecordSplit(data, split, copied) ==
    [s \in DOMAIN data \cup {split} |->
        IF s = split THEN TsvName[split] ELSE data[s]]

\* mutant: open(path, 'a').write(text)
WriteFileAppend(old, text) == Append(old, text)

\* open(path, 'w').write(text): the file holds exactly the text written
WriteFile(old, text) == <<text>>

\* the loop over the three splits, from split number i on; st is
\* [tsv: the cache directory's split files, splits: data's split keys,
\*  raised: shutil.copy raised]
RECURSIVE ConvLoop(_, _, _)
ConvLoop(i, inp, st) ==
    IF i > Len(Splits) \/ st.raised THEN st
    ELSE LET split  == Splits[i]
             source == inp[Prefixes[i]]
         IN  IF Exists(source)
             THEN IF source = NoFile
                  THEN [st EXCEPT !.raised = TRUE]   \* shutil.copy: FileNotFoundError
                  ELSE ConvLoop(i + 1, inp,
                         [st EXCEPT !.tsv[TsvName[split]] = source,
                                    !.splits = RecordSplit(st.splits, split, TRUE)])
             ELSE ConvLoop(i + 1, inp,
                         [st EXCEPT !.splits = RecordSplit(st.splits, split, FALSE)])

\* shutil.copy of a path that does not exist raises; the code copies only
\* after osp.exists.
\* The whole of convert_ymir_to_yolov5: [fs, ret]
Converted(c, inp, files) ==
    LET cache_dir == CacheDir(c)
        st  == ConvLoop(1, inp, [tsv    |-> files[cache_dir].tsv,
                                 splits |-> << >>,
                                 raised |-> FALSE])
        data == [path   |-> cache_dir,
                 nc     |-> Len(c.class_names),
                 names  |-> Enumerate(c.class_names),
                 splits |-> st.splits]
        data_yaml == Join(cache_dir, "data.yaml")
    IN  IF st.raised
        THEN [fs  |-> [files EXCEPT ![cache_dir].tsv = st.tsv],
              ret |-> [called |-> TRUE, raised |-> TRUE, path |-> << >>]]
        ELSE [fs  |-> [files EXCEPT ![cache_dir].tsv = st.tsv,
                                    ![cache_dir].yaml = WriteFile(@, data)],
              ret |-> [called |-> TRUE, raised |-> FALSE, path |-> data_yaml]]

convert_ymir_to_yolov5 ==
    /\ conv_runs < MaxRuns
    /\ LET out == Converted(cfg, src, fs)
       IN  /\ fs' = out.fs
           /\ conv_ret' = out.ret
    /\ conv_runs' = conv_runs + 1
    /\ conv_in' = src
    /\ conv_prev' = [in |-> conv_in, fs |-> fs, ret |-> conv_ret]
    /\ UNCHANGED <<cfg, src, weight_files, ctime, weights_ret, adapter,
                   attempts, trace, pred, result, anns>>

\* environment: the harness creates, rewrites or removes an index file
MaxVer == 1    \* index file contents are 1..MaxVer

ChangeIndexFile ==
    /\ conv_runs < MaxRuns
    /\ \E prefix \in Range(Prefixes), content \in 0..MaxVer :
          /\ src[prefix] # content
          /\ src' = [src EXCEPT ![prefix] = content]
    /\ UNCHANGED <<cfg, fs, conv_ret, conv_runs, conv_in, conv_prev,
                   weight_files, ctime, weights_ret, adapter, attempts, trace,
                   pred, result, anns>>

----------------------------------------------------------------------------
(* Detector adapter: YmirYolov5.__init__ and init_detector *)

Tasks  == {"infer", "mining", "train"}    \* "train" is no task label
Stride == 32                              \* self.model.stride

NoModel == [weights |-> << >>, data |-> << >>]

\* the instance right after super().__init__(): no attribute assigned
NewInstance ==
    [state |-> "uninitialized", err |-> "", attrs |-> {}, task |-> "",
     task_idx |-> 0, task_num |-> 0, model |-> NoModel, class_names |-> << >>,
     data_yaml |-> << >>, img_size |-> << >>, warmups |-> 0,
     after_convert |-> FALSE]

\* mutant: a label that is not 'infer' is taken for 'mining'
TaskIndexNoCheck(c, task) ==
    IF c.run_mining /\ c.run_infer
    THEN IF task = "infer"
         THEN [err |-> "", task_idx |-> 1, task_num |-> 2]
         ELSE [err |-> "", task_idx |-> 0, task_num |-> 2]
    ELSE [err |-> "", task_idx |-> 0, task_num |-> 1]

\* mutant: the two task indices are exchanged
TaskIndexSwapped(c, task) ==
    IF c.run_mining /\ c.run_infer
    THEN IF task = "infer"
         THEN [err |-> "", task_idx |-> 0, task_num |-> 2]
         ELSE IF task = "mining"
              THEN [err |-> "", task_idx |-> 1, task_num |-> 2]
              ELSE [err |-> "unknown task", task_idx |-> 0, task_num |-> 0]
    ELSE [err |-> "", task_idx |-> 0, task_num |-> 1]

\* lines 51-63: the task index and the task count, or the exception raised
TaskIndex(c, task) ==
    IF c.run_mining /\ c.run_infer
    THEN IF task = "infer"
         THEN [err |-> "", task_idx |-> 1, task_num |-> 2]
         ELSE IF task = "mining"
              THEN [err |-> "", task_idx |-> 0, task_num |-> 2]
              ELSE [err |-> "unknown task", task_idx |-> 0, task_num |-> 0]
    ELSE [err |-> "", task_idx |-> 0, task_num |-> 1]

\* mutant: the `if not weights: raise` is missing
init_detector_unchecked(self, wf, ct) ==
    LET weights == get_weight_file(wf, ct)
    IN  IF "data_yaml" \notin self.attrs
        THEN [err   |-> "AttributeError: data_yaml", model |-> NoModel,
              calls |-> <<"get_weight_file">>]
        ELSE [err   |-> "", model |-> [weights |-> weights, data |-> self.data_yaml],
              calls |-> <<"get_weight_file", "DetectMultiBackend">>]

\* init_detector reads self.data_yaml: an attribute that was never assigned
\* makes torch.nn.Module.__getattr__ raise AttributeError
init_detector(self, wf, ct) ==
    LET weights == get_weight_file(wf, ct)
    IN  IF weights = << >>
        THEN [err   |-> "no weights file specified!", model |-> NoModel,
              calls |-> <<"get_weight_file">>]
        ELSE IF "data_yaml" \notin self.attrs
        THEN [err   |-> "AttributeError: data_yaml", model |-> NoModel,
              calls |-> <<"get_weight_file">>]
        ELSE [err   |-> "", model |-> [weights |-> weights, data |-> self.data_yaml],
              calls |-> <<"get_weight_file", "DetectMultiBackend">>]

\* check_img_size(imgsz, s): every side made a multiple of the stride
check_img_size(imgsz, s) ==
    [i \in 1..Len(imgsz) |-> ((imgsz[i] + s - 1) \div s) * s]

\* the whole of YmirYolov5.__init__: [self, calls]
Constructed(c, task, wf, ct) ==
    LET t  == TaskIndex(c, task)
        s0 == [NewInstance EXCEPT !.task = task, !.attrs = {"cfg"}]
    IN  IF t.err # ""
        THEN [self |-> [s0 EXCEPT !.err = t.err], calls |-> << >>]
        ELSE
        LET s1 == [s0 EXCEPT !.task_idx = t.task_idx, !.task_num = t.task_num,
                             !.attrs = @ \cup {"task_idx", "task_num", "gpu_id",
                                 "gpu_count", "batch_size_per_gpu",
                                 "num_workers_per_gpu", "pin_memory", "batch_size"}]
            d  == init_detector(s1, wf, ct)
            c1 == <<"select_device">> \o d.calls
        IN  IF d.err # ""
            THEN [self |-> [s1 EXCEPT !.err = d.err], calls |-> c1]
            ELSE
            LET imgsz == check_img_size(<<c.img_size, c.img_size>>, Stride)
                s2 == [s1 EXCEPT
                         !.model = d.model,
                         !.class_names = c.class_names,
                         !.data_yaml = Join(CacheDir(c), "data.yaml"),
                         !.img_size = imgsz,
                         !.warmups = 1,
                         !.state = "ready",
                         !.attrs = @ \cup {"model", "device", "class_names",
                             "stride", "conf_thres", "iou_thres", "data_yaml",
                             "img_size"}]
            IN  [self  |-> s2,
                 calls |-> c1 \o <<"eval", "check_img_size", "warmup">>]

\* task is the label the caller passes to YmirYolov5(cfg, task)
YmirYolov5_init(task) ==
    /\ attempts < MaxRuns
    /\ LET out == Constructed(cfg, task, weight_files, ctime)
       IN  \* after_convert (history): the manifest was written before this call
           /\ adapter' = [out.self EXCEPT !.after_convert = conv_ret.called]
           /\ trace' = out.calls
    /\ attempts' = attempts + 1
    /\ UNCHANGED <<cfg, src, fs, conv_ret, conv_runs, conv_in, conv_prev,
                   weight_files, ctime, weights_ret, pred, result, anns>>

----------------------------------------------------------------------------
(* Detector adapter: predict and infer *)

\* torch.round on a coordinate of h half pixels (half to even), in half pixels
Round(h) ==
    LET lo == h \div 2
    IN  IF h % 2 = 0 THEN h
        ELSE IF lo % 2 = 0 THEN 2 * lo ELSE 2 * (lo + 1)

\* int(v) on a value of h half pixels: truncation toward zero, in pixels
ToInt(h) ==
    IF h >= 0 THEN h \div 2 ELSE -((-h) \div 2)

\* det[:, :4] = scale_boxes(...).round(): the four box columns are rounded
RoundBoxes(det) ==
    [r \in 1..Len(det) |->
        [k \in 1..Len(det[r]) |-> IF k <= 4 THEN Round(det[r][k]) ELSE det[r][k]]]

\* the loop `for det in pred: if len(det): ... result.append(det)`
RECURSIVE Survivors(_)
Survivors(p) ==
    IF p = << >> THEN << >>
    ELSE IF Len(Head(p)) > 0
         THEN <<RoundBoxes(Head(p))>> \o Survivors(Tail(p))
         ELSE Survivors(Tail(p))

\* torch.cat(result, dim=0)
RECURSIVE Cat(_)
Cat(ts) ==
    IF ts = << >> THEN << >> ELSE Head(ts) \o Cat(Tail(ts))

\* mutant: np.zeros(shape=(0,)), an array without columns
EmptyResultFlat == [shape |-> <<0>>, rows |-> << >>]

\* np.zeros(shape=(0, 6), dtype=np.float32)
EmptyResult == [shape |-> <<0, 6>>, rows |-> << >>]

\* mutant: the boxes are not rounded to whole pixels
PredictedUnrounded(p) ==
    LET dets == SelectSeq(p, LAMBDA det : Len(det) > 0)
    IN  IF Len(dets) > 0
        THEN LET rows == Cat(dets)
             IN  [shape |-> <<Len(rows), Len(rows[1])>>, rows |-> rows]
        ELSE EmptyResult

\* lines 142-156 of predict: the array returned for the NMS output p
Predicted(p) ==
    LET res == Survivors(p)
    IN  IF Len(res) > 0
        THEN LET rows == Cat(res)
             IN  [shape |-> <<Len(rows), Len(rows[1])>>, rows |-> rows]
        ELSE EmptyResult

\* rw.Annotation(class_name, score, box=rw.Box(x, y, w, h)) of one result row
Annotation(row, class_names) ==
    [class_name |-> class_names[row[6] + 1],
     score      |-> row[5],
     box        |-> [x |-> ToInt(row[1]), y |-> ToInt(row[2]),
                     w |-> ToInt(row[3] - row[1]), h |-> ToInt(row[4] - row[2])]]

\* lines 159-170 of infer: one annotation per row of the array
Inferred(res, class_names) ==
    [i \in 1..res.shape[1] |-> Annotation(res.rows[i], class_names)]

predict ==
    /\ adapter.state = "ready"
    /\ ~result.returned
    /\ result' = [returned |-> TRUE, value |-> Predicted(pred)]
    /\ UNCHANGED <<cfg, src, fs, conv_ret, conv_runs, conv_in, conv_prev,
                   weight_files, ctime, weights_ret, adapter, attempts, trace,
                   pred, anns>>

infer ==
    /\ adapter.state = "ready"
    /\ ~anns.returned
    /\ LET res == Predicted(pred)
       IN  /\ result' = [returned |-> TRUE, value |-> res]
           /\ anns' = [returned |-> TRUE,
                       value |-> Inferred(res, adapter.class_names)]
    /\ UNCHANGED <<cfg, src, fs, conv_ret, conv_runs, conv_in, conv_prev,
                   weight_files, ctime, weights_ret, adapter, attempts, trace,
                   pred>>

\* the weight resolver called on its own
get_weight_file_call ==
    /\ ~weights_ret.returned
    /\ weights_ret' = [returned |-> TRUE,
                       value |-> get_weight_file(weight_files, ctime)]
    /\ UNCHANGED <<cfg, src, fs, conv_ret, conv_runs, conv_in, conv_prev,
                   weight_files, ctime, adapter, attempts, trace, pred, result,
                   anns>>

----------------------------------------------------------------------------
(* Initial states and specifications *)

ClassNames == {"cat", "dog"}

NoFiles == [d \in Dirs |->
               [tsv  |-> [f \in {"train.tsv", "val.tsv", "test.tsv"} |-> NoFile],
                yaml |-> << >>]]

NotCalled == [returned |-> FALSE, value |-> << >>]

\* values every specification starts from, except where it says otherwise
InitRest ==
    /\ fs = NoFiles
    /\ conv_ret = [called |-> FALSE, raised |-> FALSE, path |-> << >>]
    /\ conv_runs = 0
    /\ conv_in = [p \in Range(Prefixes) |-> NoFile]
    /\ conv_prev = [in  |-> [p \in Range(Prefixes) |-> NoFile], fs |-> NoFiles,
                    ret |-> [called |-> FALSE, raised |-> FALSE, path |-> << >>]]
    /\ weights_ret = NotCalled
    /\ attempts = 0
    /\ trace = << >>
    /\ result = NotCalled
    /\ anns = NotCalled

\* the harness's run: the converter and the adapter's construction on every
\* configuration and every set of weight files
Init ==
    /\ \E rm \in BOOLEAN, ri \in BOOLEAN, cd \in {"", "/cache"} :
          cfg = [run_mining |-> rm, run_infer |-> ri, cache_dir |-> cd,
                 root_dir |-> "/out", class_names |-> <<"cat", "dog">>,
                 img_size |-> 100]
    /\ src \in [Range(Prefixes) -> 0..MaxVer]
    /\ weight_files \in SeqsUpTo({<<"a">> \o PT, BEST_PT}, MaxCands)
    /\ ctime = [n \in WeightNames |-> 1]
    /\ adapter = NewInstance
    /\ pred = << >>
    /\ InitRest

Next ==
    \/ convert_ymir_to_yolov5
    \/ \E task \in Tasks : YmirYolov5_init(task)

Spec == Init /\ [][Next]_vars

\* the weight resolver on every candidate list and every creation time
InitWeights ==
    /\ cfg = [run_mining |-> FALSE, run_infer |-> TRUE, cache_dir |-> "",
              root_dir |-> "/out", class_names |-> <<"cat", "dog">>,
              img_size |-> 100]
    /\ src = [p \in Range(Prefixes) |-> NoFile]
    /\ weight_files \in SeqsUpTo(WeightNames, MaxCands)
    /\ ctime \in [WeightNames -> 1..MaxTime]
    /\ adapter = NewInstance
    /\ pred = << >>
    /\ InitRest

NextWeights == get_weight_file_call

SpecWeights == InitWeights /\ [][NextWeights]_vars

\* the converter on every class name list, cache directory and set of index
\* files
InitManifest ==
    /\ \E cd \in {"", "/cache"}, names \in SeqsUpTo(ClassNames, MaxClasses) :
          cfg = [run_mining |-> FALSE, run_infer |-> TRUE, cache_dir |-> cd,
                 root_dir |-> "/out", class_names |-> names, img_size |-> 100]
    /\ src \in [Range(Prefixes) -> 0..MaxVer]
    /\ weight_files = << >>
    /\ ctime = [n \in WeightNames |-> 1]
    /\ adapter = NewInstance
    /\ pred = << >>
    /\ InitRest

NextManifest == convert_ymir_to_yolov5

SpecManifest == InitManifest /\ [][NextManifest]_vars

\* the converter on every cache directory and set of index files, run again
\* after the harness changed the index files or left them alone
InitConvert ==
    /\ \E cd \in {"", "/cache"} :
          cfg = [run_mining |-> FALSE, run_infer |-> TRUE, cache_dir |-> cd,
                 root_dir |-> "/out", class_names |-> <<"cat", "dog">>,
                 img_size |-> 100]
    /\ src \in [Range(Prefixes) -> 0..MaxVer]
    /\ weight_files = << >>
    /\ ctime = [n \in WeightNames |-> 1]
    /\ adapter = NewInstance
    /\ pred = << >>
    /\ InitRest

NextConvert ==
    \/ convert_ymir_to_yolov5
    \/ ChangeIndexFile

SpecConvert == InitConvert /\ [][NextConvert]_vars

\* predict and infer as functions of their inputs: every NMS output of at
\* most MaxDet detections (boxes as scale_boxes returns them), on an instance
\* in the state a completed __init__ leaves (class_names: line 75)
Boxes ==
    {<<x1, y1, x2, MaxHalf>> : x1 \in 0..MaxHalf, y1 \in 0..1, x2 \in 0..MaxHalf}

Rows ==
    {b \o <<90, cls>> : b \in {b \in Boxes : b[1] <= b[3]}, cls \in 0..1}

InitPredict ==
    /\ cfg = [run_mining |-> FALSE, run_infer |-> TRUE, cache_dir |-> "",
              root_dir |-> "/out", class_names |-> <<"cat", "dog">>,
              img_size |-> 100]
    /\ src = [p \in Range(Prefixes) |-> NoFile]
    /\ weight_files = <<BEST_PT>>
    /\ ctime = [n \in WeightNames |-> 1]
    /\ adapter = [NewInstance EXCEPT !.state = "ready",
                                     !.class_names = cfg.class_names,
                                     !.attrs = {"cfg", "class_names"}]
    /\ \E det \in SeqsUpTo(Rows, MaxDet) : pred = <<det>>
    /\ InitRest

NextPredict ==
    \/ predict
    \/ infer

SpecPredict == InitPredict /\ [][NextPredict]_vars

----------------------------------------------------------------------------
(* Properties *)

\* a name that ends with "best" right before the suffix ".pt"
NamedBest(p) ==
    \E k \in 0..Len(p) : p = SubSeq(p, 1, k) \o <<"b", "e", "s", "t">> \o PT

\* C1: get_weight_file returns the first candidate, in list order, whose name
\* ends with "best" before the suffix, whatever the creation times; with no
\* such candidate, a candidate of the latest creation time; with no candidate
\* at all, the empty string.
C1_WeightPriority ==
    weights_ret.returned =>
        LET wf == weight_files
            r  == weights_ret.value
        IN  IF \E i \in 1..Len(wf) : NamedBest(wf[i])
            THEN \E i \in 1..Len(wf) :
                    /\ NamedBest(wf[i])
                    /\ \A j \in 1..(i - 1) : ~NamedBest(wf[j])
                    /\ r = wf[i]
            ELSE IF Len(wf) > 0
                 THEN /\ r \in Range(wf)
                      /\ \A j \in 1..Len(wf) : ctime[wf[j]] <= ctime[r]
                 ELSE r = << >>

\* ["a.pt", "best.pt", "c.pt"] with best.pt older than c.pt gives best.pt
C1_Witness ==
    /\ weights_ret.returned
    /\ weight_files = << <<"a">> \o PT, BEST_PT, <<"c">> \o PT >>
    /\ ctime[BEST_PT] < ctime[<<"c">> \o PT]
    /\ weights_ret.value = BEST_PT

CountOf(call, calls) == Cardinality({i \in 1..Len(calls) : calls[i] = call})

LabelRejected == cfg.run_mining /\ cfg.run_infer /\ adapter.task \notin {"infer", "mining"}

\* C2: a construction that finds no weight file raises at once: the backend
\* is not loaded, no warmup runs, the weights are looked up once and no other
\* model is taken, and the instance is not ready.
C2_NoWeightsFatal ==
    (attempts > 0 /\ weight_files = << >>) =>
        /\ adapter.state # "ready"
        /\ adapter.err = IF LabelRejected THEN "unknown task"
                         ELSE "no weights file specified!"
        /\ CountOf("DetectMultiBackend", trace) = 0
        /\ CountOf("warmup", trace) = 0
        /\ CountOf("get_weight_file", trace) <= 1
        /\ adapter.model = NoModel
        /\ adapter.warmups = 0

C2_Witness ==
    /\ attempts > 0
    /\ weight_files = << >>
    /\ adapter.err = "no weights file specified!"
    /\ trace = <<"select_device", "get_weight_file">>

\* C3 as stated: a task label other than 'infer' and 'mining' makes the
\* construction raise "unknown task" before it does anything else, whatever
\* run_mining and run_infer are.
C3_UnknownTaskAlwaysFatal ==
    (attempts > 0 /\ adapter.task \notin {"infer", "mining"}) =>
        /\ adapter.err = "unknown task"
        /\ trace = << >>
        /\ adapter.state # "ready"

\* C3 amended: the label is checked only when run_mining and run_infer are
\* both set: then an unknown label raises "unknown task" before anything else
\* is done; in every other flag combination the label is not looked at, the
\* pair (0, 1) is assigned and the construction goes on to select the device.
C3_UnknownTaskFatalWhenBoth ==
    (attempts > 0 /\ adapter.task \notin {"infer", "mining"}) =>
        IF cfg.run_mining /\ cfg.run_infer
        THEN /\ adapter.err = "unknown task"
             /\ trace = << >>
             /\ adapter.state # "ready"
        ELSE /\ adapter.err # "unknown task"
             /\ Len(trace) > 0
             /\ trace[1] = "select_device"
             /\ adapter.task_idx = 0
             /\ adapter.task_num = 1

C3_Witness ==
    /\ attempts > 0
    /\ cfg.run_mining /\ cfg.run_infer
    /\ adapter.task = "train"
    /\ adapter.err = "unknown task"

\* C4: the construction assigns (task_idx, task_num) = (0, 2) to 'mining' and
\* (1, 2) to 'infer' when run_mining and run_infer are both set, and (0, 1)
\* in every other flag combination whatever the label; 0 <= task_idx < task_num,
\* and nothing changes the pair of an instance afterwards.
C4_TaskPair ==
    /\ [](("task_idx" \in adapter.attrs) =>
            /\ "task_num" \in adapter.attrs
            /\ <<adapter.task_idx, adapter.task_num>> =
                  IF cfg.run_mining /\ cfg.run_infer
                  THEN IF adapter.task = "mining" THEN <<0, 2>> ELSE <<1, 2>>
                  ELSE <<0, 1>>
            /\ (cfg.run_mining /\ cfg.run_infer) => adapter.task \in {"infer", "mining"}
            /\ 0 <= adapter.task_idx
            /\ adapter.task_idx < adapter.task_num)
    /\ [](attempts > 0 /\ ~LabelRejected => "task_idx" \in adapter.attrs)
    /\ [][attempts' = attempts =>
            /\ adapter'.task_idx = adapter.task_idx
            /\ adapter'.task_num = adapter.task_num]_vars

C4_Witness ==
    /\ cfg.run_mining /\ cfg.run_infer
    /\ adapter.task = "mining"
    /\ "task_idx" \in adapter.attrs
    /\ adapter.task_idx = 0
    /\ adapter.task_num = 2

\* the cache directory: the cache_dir override if set, else the output root
ExpectedDir == IF cfg.cache_dir = "" THEN cfg.root_dir ELSE cfg.cache_dir

\* the manifest on disk: the one document data.yaml holds
Manifest == fs[ExpectedDir].yaml[1]

\* C6: the manifest the converter writes has nc equal to the number of class
\* names and names mapping exactly the indices 0..nc-1, index i to the i-th
\* class name in list order.
C6_ManifestClasses ==
    conv_ret.called =>
        /\ Len(fs[ExpectedDir].yaml) = 1
        /\ Manifest.nc = Len(cfg.class_names)
        /\ DOMAIN Manifest.names = 0..(Len(cfg.class_names) - 1)
        /\ \A i \in 1..Len(cfg.class_names) : Manifest.names[i - 1] = cfg.class_names[i]

C6_Witness ==
    /\ conv_ret.called
    /\ cfg.class_names = <<"cat", "dog">>
    /\ Manifest.nc = 2
    /\ Manifest.names[0] = "cat"
    /\ Manifest.names[1] = "dog"

\* C7: whichever index files are missing, the converter does not raise, the
\* index files that exist are in the cache directory as train.tsv, val.tsv and
\* test.tsv, the split files of the missing ones are left as they were, and
\* the manifest names all three split files.
C7_MissingSplits ==
    conv_ret.called =>
        /\ ~conv_ret.raised
        /\ \A i \in 1..3 :
              LET source == conv_in[Prefixes[i]]
                  file   == TsvName[Splits[i]]
              IN  /\ source # NoFile => fs[ExpectedDir].tsv[file] = source
                  /\ source = NoFile => fs[ExpectedDir].tsv[file] = conv_prev.fs[ExpectedDir].tsv[file]
        /\ DOMAIN Manifest.splits = {"train", "val", "test"}
        /\ Manifest.splits["train"] = "train.tsv"
        /\ Manifest.splits["val"] = "val.tsv"
        /\ Manifest.splits["test"] = "test.tsv"

\* the val index file is missing, nothing is copied for it, val is listed
C7_Witness ==
    /\ conv_ret.called
    /\ ~conv_ret.raised
    /\ conv_in["val"] = NoFile
    /\ conv_in["training"] # NoFile
    /\ fs[ExpectedDir].tsv["val.tsv"] = NoFile
    /\ fs[ExpectedDir].tsv["train.tsv"] = conv_in["training"]
    /\ Manifest.splits["val"] = "val.tsv"

\* C8: a converter run that sees the configuration and the index files of
\* the run before it leaves every directory as that run left it and returns
\* the same path, <cache_dir>/data.yaml with cache_dir the override if set,
\* else the output root.
C8_RerunIdempotent ==
    /\ conv_ret.called =>
          /\ conv_ret.path = <<ExpectedDir, "data.yaml">>
          /\ fs[ExpectedDir].yaml # << >>
    /\ (conv_runs >= 2 /\ conv_prev.in = conv_in) =>
          /\ fs = conv_prev.fs
          /\ conv_ret = conv_prev.ret

C8_Witness ==
    /\ conv_runs >= 2
    /\ conv_prev.in = conv_in
    /\ cfg.cache_dir = "/cache"
    /\ conv_ret.path = <<"/cache", "data.yaml">>
    /\ fs = conv_prev.fs

\* the detections NMS leaves for the image
Detections == Cat(pred)

\* C9: predict returns an array of shape (n, 6), n the number of detections
\* NMS leaves, one row per detection in order, (0, 6) when there is none;
\* infer returns one annotation per row, with the box x = x_min, y = y_min,
\* w = x_max - x_min, h = y_max - y_min of that row.
C9_PredictShape ==
    /\ result.returned =>
          LET v == result.value
          IN  /\ v.shape = <<Len(Detections), 6>>
              /\ Len(v.rows) = Len(Detections)
              /\ \A i \in 1..Len(v.rows) :
                    /\ Len(v.rows[i]) = 6
                    /\ v.rows[i][5] = Detections[i][5]
                    /\ v.rows[i][6] = Detections[i][6]
    /\ anns.returned =>
          LET v == result.value
              a == anns.value
          IN  /\ result.returned
              /\ Len(a) = Len(v.rows)
              /\ \A i \in 1..Len(a) :
                    /\ 2 * a[i].box.x = v.rows[i][1]
                    /\ 2 * a[i].box.y = v.rows[i][2]
                    /\ 2 * a[i].box.w = v.rows[i][3] - v.rows[i][1]
                    /\ 2 * a[i].box.h = v.rows[i][4] - v.rows[i][2]

\* no detection: a (0, 6) array and an empty annotation list
C9_Witness ==
    /\ result.returned
    /\ anns.returned
    /\ pred = << << >> >>
    /\ result.value.shape = <<0, 6>>
    /\ anns.value = << >>

\* C10 as stated: with the manifest written before and a weight file found,
\* the construction resolves the weights, loads the backend with them and with
\* the path the converter returned, snaps the image size, warms up once and
\* leaves the instance ready.
C10_ConstructionCompletes ==
    (/\ attempts > 0
     /\ adapter.after_convert
     /\ weight_files # << >>
     /\ adapter.task \in {"infer", "mining"}) =>
        /\ adapter.state = "ready"
        /\ adapter.err = ""
        /\ trace = <<"select_device", "get_weight_file", "DetectMultiBackend",
                     "eval", "check_img_size", "warmup">>
        /\ adapter.model.weights # << >>
        /\ adapter.model.data = conv_ret.path

====
